---- MODULE Spec2Model ----
(***************************************************************************)
(* Model of the sliding-tile game screen of snaptile-reactnative           *)
(* (GameScreen, second half of src/context/AuthContext.tsx): puzzle        *)
(* generation, tile presses, win detection, and the two calls to the       *)
(* game service (session creation, completion report); and of AuthProvider *)
(* (first half of the same file) under the two variants of the root        *)
(* layout (src/unnamed/part_001, src/unnamed/part_002).                    *)
(*                                                                         *)
(* Encoding of JavaScript values:                                          *)
(*   a cell value is a label (1, 2, ...), null or undefined;               *)
(*   an array index is a natural number or undefined;                      *)
(*   a number that may be NaN is <<n>> or NaN (the empty tuple);           *)
(*   a string is a tuple of one-character strings.                         *)
(***************************************************************************)
EXTENDS Integers, Sequences, FiniteSets, TLC

VARIABLES
    params,           \* route params of the screen: [gridSize, shuffleMoves] strings
    mounted,          \* the GameScreen component is mounted
    pieces,           \* useState<Piece[]>([]): the values of the cells
    moves,            \* useState(0)
    gridSize,         \* useState(3)
    shuffleMoves,     \* useState(50)
    gameId,           \* useState<string | null>(null)
    loading,          \* useState(true)
    winModalVisible,  \* useState(false)
    modalState,       \* the confirm dialog: "none", "restart" or "exit"
    timerOn,          \* an interval created by startTimer is active
    alerts,           \* Alert.alert dialogs on screen, oldest first
    createReq,        \* POST /game/create requests in flight
    completeReq,      \* POST /game/complete requests in flight (their game_id)
    created,          \* number of sessions the service has created
    last,             \* the last handler that ran, with the state it started from
    wins,             \* number of presses that solved the board since it was generated
    reports,          \* number of POST /game/complete sent since the board was generated
    call,             \* a direct call of generatePuzzle / checkWinCondition
    layout,           \* the root layout in use: "part_001" or "part_002"
    authState,        \* useState({token: null, authenticated: false})
    isAuthLoading,    \* useState(true)
    loadPc,           \* position of loadToken: "reading" or "done"
    storedToken,      \* the SecureStore item TOKEN_KEY, null when absent
    authHeader,       \* axios.defaults.headers.common['Authorization'], null when absent
    segments,         \* segments[0] of useSegments(): the top route segment
    effectDue,        \* the effect of InitialLayout is scheduled (a dependency changed)
    splashHidden,     \* SplashScreen.hideAsync() has been called
    lastRedirect,     \* target of the last router.replace of the layout, or "none"
    tasks,            \* asynchronous auth operations and API requests in flight
    logins,           \* number of login calls made
    authLast          \* the last outcome delivered to a caller of axios / login / logout

authVars == <<layout, authState, isAuthLoading, loadPc, storedToken, authHeader, segments,
              effectDue, splashHidden, lastRedirect, tasks, logins, authLast>>

vars == <<params, mounted, pieces, moves, gridSize, shuffleMoves, gameId, loading,
          winModalVisible, modalState, timerOn, alerts, createReq, completeReq,
          created, last, wins, reports, call, authVars>>

gameVars == <<params, mounted, pieces, moves, gridSize, shuffleMoves, gameId, loading,
              winModalVisible, modalState, timerOn, alerts, createReq, completeReq,
              created, last, wins, reports>>

-----------------------------------------------------------------------------
\* Bounds of the exploration.
MaxSize == 3        \* grid sizes up to MaxSize in direct calls of the functions
MaxShuffle == 2     \* shuffle counts up to MaxShuffle on grids larger than 2 x 2
MaxMoves == 3       \* accepted tile presses per session
MaxGames == 2       \* sessions created during one visit of the screen
MaxLogins == 2      \* login calls during one run of the application
MaxInFlight == 2    \* auth operations and API requests in flight at a time

-----------------------------------------------------------------------------
\* JavaScript values.
null == 0
undefined == -1
NaN == <<>>

DEFAULT_GRID_SIZE == 3
DEFAULT_SHUFFLE_MOVES == 50

Abs(x) == IF x < 0 THEN -x ELSE x

\* Math.floor(a / b) for integers a, b with b # 0.
FloorDiv(a, b) ==
    LET q == Abs(a) \div Abs(b)
        exact == (Abs(a) % Abs(b)) = 0
    IN  IF (a >= 0 /\ b > 0) \/ (a <= 0 /\ b < 0) THEN q
        ELSE IF exact THEN -q ELSE -q - 1

\* a % b of JavaScript for integers a, b with b # 0: the sign of the dividend.
JsRem(a, b) ==
    LET r == Abs(a) % Abs(b) IN IF a < 0 THEN -r ELSE r

\* Math.floor(index / gridSize). undefined / n and 0 / 0 are NaN.
RowOf(index, size) ==
    IF index = undefined \/ size = 0 THEN NaN ELSE <<FloorDiv(index, size)>>

\* index % gridSize. undefined % n and n % 0 are NaN.
ColOf(index, size) ==
    IF index = undefined \/ size = 0 THEN NaN ELSE <<JsRem(index, size)>>

\* a > b and a < b on numbers that may be NaN: false when either is NaN.
Gt(a, b) == a # NaN /\ b # NaN /\ a[1] > b[1]
Lt(a, b) == a # NaN /\ b # NaN /\ a[1] < b[1]

-----------------------------------------------------------------------------
\* Strings and parseInt.
Digits == <<"0", "1", "2", "3", "4", "5", "6", "7", "8", "9">>

DigitValue(c) == CHOOSE d \in 0..9 : Digits[d + 1] = c

IsDigit(c) == \E d \in 0..9 : Digits[d + 1] = c

\* Number.prototype.toString() of a natural number.
RECURSIVE NumToString(_)
NumToString(n) ==
    IF n < 10 THEN <<Digits[n + 1]>>
    ELSE NumToString(n \div 10) \o <<Digits[(n % 10) + 1]>>

\* The value of the longest prefix of s made of digits, continued from acc.
RECURSIVE DigitsPrefix(_, _, _)
DigitsPrefix(s, acc, seen) ==
    IF s = <<>> \/ ~IsDigit(Head(s)) THEN (IF seen THEN <<acc>> ELSE NaN)
    ELSE DigitsPrefix(Tail(s), acc * 10 + DigitValue(Head(s)), TRUE)

\* parseInt(s, 10): an optional sign, then digits; NaN when there is no digit.
\* A missing param (undefined) is the empty string here: both parse to NaN.
ParseInt(s) ==
    IF s # <<>> /\ Head(s) = "-"
    THEN LET v == DigitsPrefix(Tail(s), 0, FALSE) IN IF v = NaN THEN NaN ELSE <<-v[1]>>
    ELSE IF s # <<>> /\ Head(s) = "+" THEN DigitsPrefix(Tail(s), 0, FALSE)
    ELSE DigitsPrefix(s, 0, FALSE)

\* x || d on a number x: d when x is NaN or 0.
OrDefault(x, d) == IF x = NaN \/ x = <<0>> THEN d ELSE x[1]

-----------------------------------------------------------------------------
\* generatePuzzle (src/context/AuthContext.tsx:140-163).

\* Mutant of ArrayFromIota: the labels start at 0 (i instead of i + 1).
ArrayFromIota_ZeroBased(n) == IF n <= 0 THEN <<>> ELSE [i \in 1..n |-> i - 1]

\* Array.from({ length: n }, (_, i) => i + 1): empty when n <= 0.
ArrayFromIota(n) == IF n <= 0 THEN <<>> ELSE [i \in 1..n |-> i]

\* The locals of generatePuzzle before the loop. extra is the value of the
\* array's property named "undefined", which a swap with an undefined index
\* reads and writes; it is not an element of the array.
GenStart(size) ==
    LET totalPieces == size * size
        arr == Append(ArrayFromIota(totalPieces - 1), null)
    IN  [pieces |-> arr, emptyIndex |-> Len(arr) - 1, extra |-> undefined]

\* pieces[index]
GetCell(st, index) ==
    IF index = undefined THEN st.extra ELSE st.pieces[index + 1]

\* pieces[index] = v
SetCell(st, index, v) ==
    IF index = undefined THEN [st EXCEPT !.extra = v]
    ELSE [st EXCEPT !.pieces[index + 1] = v]

\* Mutant of Neighbors: the left and right neighbours are taken by linear index,
\* without the column checks, so a move can wrap around a row end.
Neighbors_NoColumnCheck(emptyIndex, size) ==
    LET row == RowOf(emptyIndex, size)
    IN  (IF Gt(row, <<0>>) THEN <<emptyIndex - size>> ELSE <<>>)
        \o (IF Lt(row, <<size - 1>>) THEN <<emptyIndex + size>> ELSE <<>>)
        \o (IF emptyIndex - 1 >= 0 THEN <<emptyIndex - 1>> ELSE <<>>)
        \o (IF emptyIndex + 1 < size * size THEN <<emptyIndex + 1>> ELSE <<>>)

\* The neighbors array of one loop iteration, in push order.
Neighbors(emptyIndex, size) ==
    LET row == RowOf(emptyIndex, size)
        col == ColOf(emptyIndex, size)
    IN  (IF Gt(row, <<0>>) THEN <<emptyIndex - size>> ELSE <<>>)
        \o (IF Lt(row, <<size - 1>>) THEN <<emptyIndex + size>> ELSE <<>>)
        \o (IF Gt(col, <<0>>) THEN <<emptyIndex - 1>> ELSE <<>>)
        \o (IF Lt(col, <<size - 1>>) THEN <<emptyIndex + 1>> ELSE <<>>)

\* Mutant of MoveChoices: Math.round instead of Math.floor, so the index can be
\* neighbors.length and the element undefined.
MoveChoices_Round(neighbors) ==
    {neighbors[j] : j \in 1..Len(neighbors)} \cup {undefined}

\* neighbors[Math.floor(Math.random() * neighbors.length)]: any element, or
\* undefined when the array is empty.
MoveChoices(neighbors) ==
    IF neighbors = <<>> THEN {undefined}
    ELSE {neighbors[j] : j \in 1..Len(neighbors)}

\* Mutant of SwapWithEmpty: the moved tile is copied into the empty cell and its
\* old cell is not cleared.
SwapWithEmpty_CopyOnly(st, moveIndex) ==
    [SetCell(st, st.emptyIndex, GetCell(st, moveIndex)) EXCEPT !.emptyIndex = moveIndex]

\* [pieces[emptyIndex], pieces[moveIndex]] = [pieces[moveIndex], pieces[emptyIndex]];
\* emptyIndex = moveIndex;
SwapWithEmpty(st, moveIndex) ==
    LET a == GetCell(st, moveIndex)
        b == GetCell(st, st.emptyIndex)
        st1 == SetCell(st, st.emptyIndex, a)
        st2 == SetCell(st1, moveIndex, b)
    IN  [st2 EXCEPT !.emptyIndex = moveIndex]

\* One iteration of the shuffle loop: every outcome of the random choice.
ShuffleStep(st, size) ==
    {SwapWithEmpty(st, m) : m \in MoveChoices(Neighbors(st.emptyIndex, size))}

\* Mutant of LoopContinues: i <= shuffleMoves.
LoopContinues_Inclusive(i, shuffles) == i <= shuffles

\* for (let i = 0; i < shuffleMoves; i++)
LoopContinues(i, shuffles) == i < shuffles

\* The locals when the loop ends, started at iteration i with the locals in S:
\* every outcome.
RECURSIVE ShuffleLoop(_, _, _, _)
ShuffleLoop(S, i, size, shuffles) ==
    IF LoopContinues(i, shuffles)
    THEN ShuffleLoop(UNION {ShuffleStep(st, size) : st \in S}, i + 1, size, shuffles)
    ELSE S

\* generatePuzzle(gridSize, shuffleMoves): the boards it can return
\* (pieces.map(val => ({ value: val })) keeps the array elements only).
generatePuzzle(size, shuffles) ==
    {st.pieces : st \in ShuffleLoop({GenStart(size)}, 0, size, shuffles)}

-----------------------------------------------------------------------------
\* checkWinCondition (src/context/AuthContext.tsx:228-233).
\* Mutant of checkWinCondition: the last cell is not checked.
checkWinCondition_NoLastCell(currentPieces) ==
    \A i \in 0..(Len(currentPieces) - 2) : currentPieces[i + 1] = i + 1

checkWinCondition(currentPieces) ==
    /\ \A i \in 0..(Len(currentPieces) - 2) : currentPieces[i + 1] = i + 1
    /\ currentPieces[Len(currentPieces)] = null

-----------------------------------------------------------------------------
\* handlePiecePress (src/context/AuthContext.tsx:252-274), as a function of
\* the state its closure reads.

\* pieces.findIndex(p => p.value === null)
FindEmptyIndex(ps) ==
    IF \E i \in 1..Len(ps) : ps[i] = null
    THEN (CHOOSE i \in 1..Len(ps) : ps[i] = null /\ \A j \in 1..(i - 1) : ps[j] # null) - 1
    ELSE -1

\* Mutant of isAdjacent: adjacency by linear index (one apart, or one row apart).
isAdjacent_Linear(pressedIndex, emptyIndex, size) ==
    \/ Abs(pressedIndex - emptyIndex) = 1
    \/ Abs(pressedIndex - emptyIndex) = Abs(size)

\* Mutant of isAdjacent: the other coordinate is not required to be equal.
isAdjacent_NoSameLine(pressedIndex, emptyIndex, size) ==
    LET pressedRow == FloorDiv(pressedIndex, size)
        pressedCol == JsRem(pressedIndex, size)
        emptyRow == FloorDiv(emptyIndex, size)
        emptyCol == JsRem(emptyIndex, size)
    IN  \/ (Abs(pressedRow - emptyRow) = 1 /\ Abs(pressedCol - emptyCol) <= 1)
        \/ (Abs(pressedCol - emptyCol) = 1 /\ Abs(pressedRow - emptyRow) <= 1)

\* const isAdjacent = ... (line 259)
isAdjacent(pressedIndex, emptyIndex, size) ==
    LET pressedRow == FloorDiv(pressedIndex, size)
        pressedCol == JsRem(pressedIndex, size)
        emptyRow == FloorDiv(emptyIndex, size)
        emptyCol == JsRem(emptyIndex, size)
    IN  \/ (Abs(pressedRow - emptyRow) = 1 /\ pressedCol = emptyCol)
        \/ (Abs(pressedCol - emptyCol) = 1 /\ pressedRow = emptyRow)

\* Mutant of SwapCells: only the second cell is written.
SwapCells_OneWay(ps, i, j) == [ps EXCEPT ![j + 1] = ps[i + 1]]

\* [newPieces[pressedIndex], newPieces[emptyIndex]] =
\*     [newPieces[emptyIndex], newPieces[pressedIndex]]
SwapCells(ps, i, j) ==
    [ps EXCEPT ![i + 1] = ps[j + 1], ![j + 1] = ps[i + 1]]

\* Mutant of PressResult: the win check reads the board of the closure (pieces)
\* instead of newPieces.
PressResult_StaleWinCheck(ps, size, mv, pressedIndex) ==
    LET emptyIndex == FindEmptyIndex(ps)
        ignored == [pieces |-> ps, moves |-> mv, moved |-> FALSE,
                    checked |-> FALSE, won |-> FALSE]
    IN  IF emptyIndex = -1 THEN ignored
        ELSE IF isAdjacent(pressedIndex, emptyIndex, size)
        THEN [pieces |-> SwapCells(ps, pressedIndex, emptyIndex), moves |-> mv + 1,
              moved |-> TRUE, checked |-> TRUE, won |-> checkWinCondition(ps)]
        ELSE ignored

\* What one call does: the board and counter it sets, whether the press was
\* accepted, whether the win check ran and whether handleGameWin was called.
PressResult(ps, size, mv, pressedIndex) ==
    LET emptyIndex == FindEmptyIndex(ps)
        ignored == [pieces |-> ps, moves |-> mv, moved |-> FALSE,
                    checked |-> FALSE, won |-> FALSE]
    IN  IF emptyIndex = -1 THEN ignored
        ELSE IF isAdjacent(pressedIndex, emptyIndex, size)
        THEN LET newPieces == SwapCells(ps, pressedIndex, emptyIndex)
             IN  [pieces |-> newPieces, moves |-> mv + 1, moved |-> TRUE,
                  checked |-> TRUE, won |-> checkWinCondition(newPieces)]
        ELSE ignored

-----------------------------------------------------------------------------
\* The game screen.

\* const size = parseInt(params.gridSize as string, 10) || 3;
ParamSize(p) == OrDefault(ParseInt(p.gridSize), DEFAULT_GRID_SIZE)

\* const shuffles = parseInt(params.shuffleMoves as string, 10) || 50;
ParamShuffles(p) == OrDefault(ParseInt(p.shuffleMoves), DEFAULT_SHUFFLE_MOVES)

\* Route params the screen is opened with. gridSize.toString() and
\* shuffleMoves.toString() of the launcher (src/app/auth.tsx:443-444) give the
\* digit strings; a missing param, "-1" and "2x" are what any other route
\* (a link) can carry. A missing gridSize gives the 3 x 3 grid.
GridParams == {<<>>, <<"-", "1">>, <<"2", "x">>, NumToString(1)}

ShuffleParams == {<<>>, <<"-", "1">>} \cup {NumToString(k) : k \in 0..MaxShuffle}

\* Grids larger than 2 x 2 are explored for at most MaxShuffle shuffles.
ParamChoices ==
    {p \in [gridSize : GridParams, shuffleMoves : ShuffleParams] :
        Abs(ParamSize(p)) <= 2 \/ ParamShuffles(p) <= MaxShuffle}

NoCall == [pc |-> "idle"]

\* The record of a handler other than a tile press.
NotAPress == [op |-> "other", index |-> -1, pieces |-> <<>>, moves |-> 0,
              completeReq |-> <<>>, alerts |-> <<>>, checked |-> FALSE]

\* The record of a failed request ("createFailed", "completeFailed").
DidFail(op) == [NotAPress EXCEPT !.op = op]

\* The record of a successful session creation: the request answered and the
\* game_id of the response.
DidCreate(req, id) ==
    [op |-> "created", index |-> -1, pieces |-> <<>>, moves |-> 0,
     completeReq |-> <<>>, alerts |-> <<>>, checked |-> FALSE,
     req |-> req, id |-> id]

\* The record of a tile press: the state it started from.
DidPress(index, checked) ==
    [op |-> "press", index |-> index, pieces |-> pieces, moves |-> moves,
     completeReq |-> completeReq, alerts |-> alerts, checked |-> checked]

\* Mutant of CreateRequest: grid and moves are exchanged.
CreateRequest_Exchanged(p) == [grid |-> ParamShuffles(p), moves |-> ParamSize(p)]

\* The request initializeGame sends (lines 200-207); size and shuffles are
\* locals the continuation uses after the await.
CreateRequest(p) == [grid |-> ParamSize(p), moves |-> ParamShuffles(p)]

-----------------------------------------------------------------------------
\* Values of the authentication state (AuthProvider, first half of
\* src/context/AuthContext.tsx) and of the root layout.

\* The HTTP status the response interceptor looks for (line 44).
Unauthorized == 401

\* A status of an error response other than 401.
OtherStatus == 500

\* The authState written by logout (lines 35-38) and by useState (lines 26-29).
SignedOut == [token |-> null, authenticated |-> FALSE]

\* The authState written by loadToken (line 58) and by login (line 78).
SignedIn(token) == [token |-> token, authenticated |-> TRUE]

\* `Bearer ${token}` (lines 57 and 79).
Bearer(token) == <<"Bearer", token>>

\* The default headers without an Authorization entry (line 34).
NoHeader == <<>>

\* if (token) of line 56.
Truthy(token) == token \notin {null, undefined}

\* The errors a caller can receive: an axios error carrying a response, an axios
\* error without a response, and an error thrown by SecureStore.
NoError == [kind |-> "none", status |-> undefined]
HttpError(status) == [kind |-> "http", status |-> status]
NetworkError == [kind |-> "network", status |-> undefined]
StoreError == [kind |-> "store", status |-> undefined]

\* No promise was settled by the last step.
NoAuthEvent == [op |-> "other", task |-> "none", received |-> NoError, error |-> NoError]

\* The promise of a call was fulfilled.
Resolved(task) == [NoAuthEvent EXCEPT !.op = "resolved", !.task = task]

\* The promise of a call was rejected with error; received is the error the
\* response interceptor was given, if any.
Rejected(task, received, error) ==
    [op |-> "rejected", task |-> task, received |-> received, error |-> error]

\* The application right after the first commit: AuthProvider and InitialLayout
\* have rendered with the initial state, loadToken is waiting for SecureStore
\* (line 55), and the effect of InitialLayout has not run yet.
AppStart(variant, stored, route) ==
    /\ layout = variant
    /\ authState = SignedOut
    /\ isAuthLoading = TRUE
    /\ loadPc = "reading"
    /\ storedToken = stored
    /\ authHeader = NoHeader
    /\ segments = route
    /\ effectDue = TRUE
    /\ splashHidden = FALSE
    /\ lastRedirect = "none"
    /\ tasks = <<>>
    /\ logins = 0
    /\ authLast = NoAuthEvent

\* The application while the game screen is open: the token has been loaded and
\* the user is signed in.
SignedInOnGame ==
    /\ layout = "part_001"
    /\ authState = SignedIn(1)
    /\ isAuthLoading = FALSE
    /\ loadPc = "done"
    /\ storedToken = 1
    /\ authHeader = Bearer(1)
    /\ segments = "game"
    /\ effectDue = FALSE
    /\ splashHidden = TRUE
    /\ lastRedirect = "none"
    /\ tasks = <<>>
    /\ logins = 0
    /\ authLast = NoAuthEvent

\* The state once the component has mounted and its effect (lines 223-226) has run
\* initializeGame up to the await of line 203.
Init ==
    /\ params \in ParamChoices
    /\ mounted = TRUE
    /\ pieces = <<>>
    /\ moves = 0
    /\ gridSize = DEFAULT_GRID_SIZE
    /\ shuffleMoves = DEFAULT_SHUFFLE_MOVES
    /\ gameId = null
    /\ loading = TRUE
    /\ winModalVisible = FALSE
    /\ modalState = "none"
    /\ timerOn = FALSE
    /\ alerts = <<>>
    /\ createReq = <<CreateRequest(params)>>
    /\ completeReq = <<>>
    /\ created = 0
    /\ last = NotAPress
    /\ wins = 0
    /\ reports = 0
    /\ call = NoCall
    /\ SignedInOnGame

\* The board and its buttons are on screen and nothing covers them.
BoardShown ==
    /\ mounted
    /\ ~loading
    /\ modalState = "none"
    /\ ~winModalVisible
    /\ alerts = <<>>

\* The game_id a response of POST /game/create can carry: the identifier of the
\* session just created, or none (the field is missing or null).
ResponseGameIds == {created + 1, null}

\* Mutant of StoredGameId: the identifier is stored only when none is held.
StoredGameId_KeepFirst(responseId) == IF gameId = null THEN responseId ELSE gameId

\* setGameId(response.data.game_id) (line 209)
StoredGameId(responseId) == responseId

\* initializeGame after a successful response (lines 209-214, 219). The state
\* setters of an unmounted component do nothing; startTimer still runs.
CreateSucceeds ==
    /\ createReq # <<>>
    /\ \E id \in ResponseGameIds :
        LET req == Head(createReq) IN
        /\ createReq' = Tail(createReq)
        /\ created' = created + 1
        /\ timerOn' = TRUE
        /\ IF mounted
           THEN /\ gameId' = StoredGameId(id)
                /\ gridSize' = req.grid
                /\ shuffleMoves' = req.moves
                /\ pieces' \in generatePuzzle(req.grid, req.moves)
                /\ moves' = 0
                /\ loading' = FALSE
                /\ wins' = 0
                /\ reports' = 0
           ELSE UNCHANGED <<gameId, gridSize, shuffleMoves, pieces, moves, loading, wins,
                            reports>>
        /\ last' = DidCreate(req, id)
    /\ UNCHANGED <<params, mounted, winModalVisible, modalState, alerts, completeReq, call,
                   authVars>>

\* Mutant of CreateFails: the failed request is sent again and no alert is shown.
CreateFails_Retries ==
    /\ createReq # <<>>
    /\ createReq' = Append(Tail(createReq), Head(createReq))
    /\ loading' = loading
    /\ last' = DidFail("createFailed")
    /\ UNCHANGED <<params, mounted, pieces, moves, gridSize, shuffleMoves, gameId,
                   winModalVisible, modalState, timerOn, alerts, completeReq, created,
                   call, wins, reports, authVars>>

\* Mutant of CreateFails: a board is generated although the request failed.
CreateFails_GeneratesBoard ==
    /\ createReq # <<>>
    /\ createReq' = Tail(createReq)
    /\ alerts' = Append(alerts, "createFailed")
    /\ loading' = IF mounted THEN FALSE ELSE loading
    /\ pieces' \in generatePuzzle(Head(createReq).grid, Head(createReq).moves)
    /\ last' = DidFail("createFailed")
    /\ UNCHANGED <<params, mounted, moves, gridSize, shuffleMoves, gameId,
                   winModalVisible, modalState, timerOn, completeReq, created,
                   call, wins, reports, authVars>>

\* initializeGame after a failed request (lines 215-220).
CreateFails ==
    /\ createReq # <<>>
    /\ createReq' = Tail(createReq)
    /\ alerts' = Append(alerts, "createFailed")
    /\ loading' = IF mounted THEN FALSE ELSE loading
    /\ last' = DidFail("createFailed")
    /\ UNCHANGED <<params, mounted, pieces, moves, gridSize, shuffleMoves, gameId,
                   winModalVisible, modalState, timerOn, completeReq, created,
                   call, wins, reports, authVars>>

\* Mutant of handleGameWin: the report is sent without the check of gameId.
handleGameWin_NoIdCheck(id, reqs, shown) ==
    [completeReq |-> Append(reqs, id), alerts |-> shown]

\* handleGameWin up to its await (lines 235-241), called with gameId id while the
\* reports reqs are in flight and the alerts shown are on screen: the reports in
\* flight and the alerts on screen afterwards.
handleGameWin(id, reqs, shown) ==
    IF id = null
    THEN [completeReq |-> reqs, alerts |-> Append(shown, "noGameId")]
    ELSE [completeReq |-> Append(reqs, id), alerts |-> shown]

\* A tile is pressed (line 346: the empty tile is disabled): handlePiecePress,
\* with stopTimer and handleGameWin up to its await (lines 235-241) on a win.
PressTile(pressedIndex) ==
    /\ BoardShown
    /\ pressedIndex \in 0..(Len(pieces) - 1)
    /\ pieces[pressedIndex + 1] # null
    /\ LET r == PressResult(pieces, gridSize, moves, pressedIndex) IN
        /\ r.moved => moves < MaxMoves
        /\ pieces' = r.pieces
        /\ moves' = r.moves
        /\ timerOn' = IF r.won THEN FALSE ELSE timerOn
        /\ IF r.won
           THEN LET w == handleGameWin(gameId, completeReq, alerts)
                IN  /\ completeReq' = w.completeReq
                    /\ alerts' = w.alerts
                    /\ wins' = wins + 1
                    /\ reports' = reports + Len(w.completeReq) - Len(completeReq)
           ELSE UNCHANGED <<alerts, completeReq, wins, reports>>
        /\ last' = DidPress(pressedIndex, r.checked)
    /\ UNCHANGED <<params, mounted, gridSize, shuffleMoves, gameId, loading,
                   winModalVisible, modalState, createReq, created, call, authVars>>

RemoveAt(q, k) == [i \in 1..(Len(q) - 1) |-> IF i < k THEN q[i] ELSE q[i + 1]]

\* handleGameWin after a successful report (line 245).
CompleteSucceeds(k) ==
    /\ k \in 1..Len(completeReq)
    /\ completeReq' = RemoveAt(completeReq, k)
    /\ winModalVisible' = IF mounted THEN TRUE ELSE winModalVisible
    /\ last' = NotAPress
    /\ UNCHANGED <<params, mounted, pieces, moves, gridSize, shuffleMoves, gameId,
                   loading, modalState, timerOn, alerts, createReq, created,
                   call, wins, reports, authVars>>

\* handleGameWin after a failed report (lines 246-249).
CompleteFails(k) ==
    /\ k \in 1..Len(completeReq)
    /\ completeReq' = RemoveAt(completeReq, k)
    /\ alerts' = Append(alerts, "completeFailed")
    /\ last' = DidFail("completeFailed")
    /\ UNCHANGED <<params, mounted, pieces, moves, gridSize, shuffleMoves, gameId,
                   loading, winModalVisible, modalState, timerOn, createReq, created,
                   call, wins, reports, authVars>>

\* handleRestartRequest (line 282): the confirm dialog opens.
RestartRequest ==
    /\ BoardShown
    /\ modalState' = "restart"
    /\ last' = NotAPress
    /\ UNCHANGED <<params, mounted, pieces, moves, gridSize, shuffleMoves, gameId,
                   loading, winModalVisible, timerOn, alerts, createReq, completeReq,
                   created, call, wins, reports, authVars>>

\* handleBackRequest (line 283), from the Back button or the hardware key (line 285).
BackRequest ==
    /\ mounted
    /\ modalState = "none"
    /\ ~winModalVisible
    /\ alerts = <<>>
    /\ modalState' = "exit"
    /\ last' = NotAPress
    /\ UNCHANGED <<params, mounted, pieces, moves, gridSize, shuffleMoves, gameId,
                   loading, winModalVisible, timerOn, alerts, createReq, completeReq,
                   created, call, wins, reports, authVars>>

\* Cancel, or onRequestClose, of the confirm dialog (lines 302-303).
ModalCancel ==
    /\ mounted /\ ~loading /\ alerts = <<>>
    /\ modalState # "none"
    /\ modalState' = "none"
    /\ last' = NotAPress
    /\ UNCHANGED <<params, mounted, pieces, moves, gridSize, shuffleMoves, gameId,
                   loading, winModalVisible, timerOn, alerts, createReq, completeReq,
                   created, call, wins, reports, authVars>>

\* Confirm of the restart dialog: initializeGame up to its await (lines 197-207).
ConfirmRestart ==
    /\ mounted /\ ~loading /\ alerts = <<>>
    /\ modalState = "restart"
    /\ created < MaxGames
    /\ loading' = TRUE
    /\ winModalVisible' = FALSE
    /\ createReq' = Append(createReq, CreateRequest(params))
    /\ modalState' = "none"
    /\ last' = NotAPress
    /\ UNCHANGED <<params, mounted, pieces, moves, gridSize, shuffleMoves, gameId,
                   timerOn, alerts, completeReq, created, call, wins, reports, authVars>>

\* router.back(): the screen unmounts and the cleanup of the effect (line 225)
\* runs stopTimer.
Unmounted ==
    /\ mounted' = FALSE
    /\ timerOn' = FALSE
    /\ modalState' = "none"
    /\ last' = NotAPress
    /\ UNCHANGED <<params, pieces, moves, gridSize, shuffleMoves, gameId, loading,
                   winModalVisible, createReq, completeReq, created,
                   call, wins, reports, authVars>>

\* Confirm of the exit dialog (line 283).
ConfirmExit ==
    /\ mounted /\ ~loading /\ alerts = <<>>
    /\ modalState = "exit"
    /\ Unmounted
    /\ UNCHANGED alerts

\* The button of the win modal (line 318).
WinModalBack ==
    /\ mounted /\ ~loading /\ alerts = <<>>
    /\ winModalVisible
    /\ Unmounted
    /\ UNCHANGED alerts

\* The root layout replaces the route while the game screen is open
\* (src/unnamed/part_001 line 25 after a logout, src/unnamed/part_002 line 25
\* for a signed-in user outside the tabs): the screen unmounts.
RouteReplaced ==
    /\ mounted
    /\ Unmounted
    /\ UNCHANGED alerts

\* The button of the oldest alert: "Go Back" of line 217 calls router.back(),
\* the others only close the alert.
AlertDismiss ==
    /\ alerts # <<>>
    /\ alerts' = Tail(alerts)
    /\ IF Head(alerts) = "createFailed" /\ mounted
       THEN Unmounted
       ELSE /\ last' = NotAPress
            /\ UNCHANGED <<params, mounted, pieces, moves, gridSize, shuffleMoves,
                           gameId, loading, winModalVisible, modalState, timerOn,
                           createReq, completeReq, created, call, wins, reports, authVars>>

Next ==
    \/ CreateSucceeds
    \/ CreateFails
    \/ \E i \in 0..(Len(pieces) - 1) : PressTile(i)
    \/ \E k \in 1..Len(completeReq) : CompleteSucceeds(k)
    \/ \E k \in 1..Len(completeReq) : CompleteFails(k)
    \/ RestartRequest
    \/ BackRequest
    \/ ModalCancel
    \/ ConfirmRestart
    \/ ConfirmExit
    \/ WinModalBack
    \/ RouteReplaced
    \/ AlertDismiss

Spec == Init /\ [][Next]_vars

-----------------------------------------------------------------------------
\* Direct calls of the pure functions: generatePuzzle on given arguments, one
\* loop iteration at a time, and checkWinCondition on a given board or on the
\* board generatePuzzle returned.

GenCall(size, shuffles) ==
    [pc |-> "loop", fn |-> "generatePuzzle", size |-> size, shuffles |-> shuffles,
     i |-> 0, st |-> GenStart(size), board |-> <<>>, ret |-> "none"]

CheckCall(board) ==
    [pc |-> "board", fn |-> "checkWinCondition", size |-> 0, shuffles |-> 0,
     i |-> 0, st |-> GenStart(0), board |-> board, ret |-> "none"]

\* The solved board of an n x n grid (section 3 of the specification).
Solved(n) == [i \in 1..(n * n) |-> IF i < n * n THEN i ELSE null]

\* b with the contents of cells i and j (1-based) exchanged.
Exchange(b, i, j) == [b EXCEPT ![i] = b[j], ![j] = b[i]]

\* The solved boards and all their one-swap perturbations.
Perturbations ==
    UNION {{Exchange(Solved(n), i, j) : i, j \in 1..(n * n)} : n \in 2..MaxSize}

\* Boards given to checkWinCondition: every array of four cell values, and the
\* solved boards with their one-swap perturbations.
CheckBoards == [1..4 -> 0..3] \cup Perturbations

InitPure ==
    /\ params = [gridSize |-> <<>>, shuffleMoves |-> <<>>]
    /\ mounted = FALSE
    /\ pieces = <<>>
    /\ moves = 0
    /\ gridSize = DEFAULT_GRID_SIZE
    /\ shuffleMoves = DEFAULT_SHUFFLE_MOVES
    /\ gameId = null
    /\ loading = TRUE
    /\ winModalVisible = FALSE
    /\ modalState = "none"
    /\ timerOn = FALSE
    /\ alerts = <<>>
    /\ createReq = <<>>
    /\ completeReq = <<>>
    /\ created = 0
    /\ last = NotAPress
    /\ wins = 0
    /\ reports = 0
    /\ call \in {GenCall(n, k) : n \in (-1)..MaxSize, k \in (-1)..MaxShuffle}
                \cup {CheckCall(b) : b \in CheckBoards}
    /\ AppStart("part_001", null, "auth")

\* One iteration of the loop of generatePuzzle (lines 147-160).
GenIterate ==
    /\ call.pc = "loop"
    /\ LoopContinues(call.i, call.shuffles)
    /\ \E st \in ShuffleStep(call.st, call.size) :
           call' = [call EXCEPT !.st = st, !.i = call.i + 1]
    /\ UNCHANGED <<gameVars, authVars>>

\* The loop ends and generatePuzzle returns (line 162).
GenReturn ==
    /\ call.pc = "loop"
    /\ ~LoopContinues(call.i, call.shuffles)
    /\ call' = [call EXCEPT !.pc = "board", !.board = call.st.pieces]
    /\ UNCHANGED <<gameVars, authVars>>

\* checkWinCondition is applied to the board.
CheckWin ==
    /\ call.pc = "board"
    /\ call' = [call EXCEPT !.pc = "done", !.ret = checkWinCondition(call.board)]
    /\ UNCHANGED <<gameVars, authVars>>

NextPure == GenIterate \/ GenReturn \/ CheckWin

SpecPure == InitPure /\ [][NextPure]_vars

\* The stepwise loop returns only boards of generatePuzzle.
PureAgrees ==
    (call.pc \in {"board", "done"} /\ call.fn = "generatePuzzle")
        => call.board \in generatePuzzle(call.size, call.shuffles)

-----------------------------------------------------------------------------
\* Authentication and route guard: AuthProvider (src/context/AuthContext.tsx,
\* lines 25-95) under the root layout InitialLayout, of which the repository
\* holds two variants (src/unnamed/part_001 and src/unnamed/part_002).  An
\* asynchronous function is one action per stretch between two awaits.

Layouts == {"part_001", "part_002"}

\* The screens of the Stack of the root layout.
Routes == {"auth", "(tabs)", "game", "taskGame"}

\* The token in secure storage when the application starts.
StoredAtStart == {null, 1}

\* segments[0] after navigating to path.
TopSegment(path) ==
    CASE path = "/auth" -> "auth"
      [] path = "/(tabs)" -> "(tabs)"
      [] path = "/game" -> "game"
      [] path = "/taskGame" -> "taskGame"

\* The body of the effect of InitialLayout below its early return: the path
\* given to router.replace, or "none", and the call of SplashScreen.hideAsync.
GuardDecision(variant, authenticated, seg) ==
    IF variant = "part_001"
    THEN LET inAuthGroup == seg = "auth"
         IN  [redirect |-> IF authenticated /\ inAuthGroup THEN "/(tabs)"
                           ELSE IF ~authenticated /\ ~inAuthGroup THEN "/auth"
                           ELSE "none",
              hide |-> TRUE]
    ELSE LET inApp == seg = "(tabs)"
         IN  [redirect |-> IF authenticated /\ ~inApp THEN "/(tabs)"
                           ELSE IF ~authenticated /\ inApp THEN "/auth"
                           ELSE "none",
              hide |-> TRUE]

\* Mutant of InitialLayoutEffect: the effect has no early return.
InitialLayoutEffect_NoLoadingCheck(variant, authLoading, authenticated, seg) ==
    GuardDecision(variant, authenticated, seg)

\* The effect of InitialLayout (part_001 lines 13-28, part_002 lines 14-35).
InitialLayoutEffect(variant, authLoading, authenticated, seg) ==
    IF authLoading
    THEN [redirect |-> "none", hide |-> FALSE]
    ELSE GuardDecision(variant, authenticated, seg)

\* What InitialLayout renders (part_001 lines 30-42, part_002 lines 39-51).
LayoutRenders(authLoading) == IF authLoading THEN "nothing" ELSE "Stack"

\* The dependency on the auth state of the effect of InitialLayout has changed
\* after setAuthState(after): part_001 depends on authState.authenticated,
\* part_002 on the authState object, which every setAuthState replaces.
AuthDepChanged(variant, before, after) ==
    IF variant = "part_001" THEN before.authenticated # after.authenticated ELSE TRUE

\* A screen is on display and the effect of the last render has run.
ScreensShown == LayoutRenders(isAuthLoading) = "Stack" /\ ~effectDue

AuthTask(op, pc, token) == [op |-> op, pc |-> pc, token |-> token, received |-> NoError]

InitAuth ==
    /\ params = [gridSize |-> <<>>, shuffleMoves |-> <<>>]
    /\ mounted = FALSE
    /\ pieces = <<>>
    /\ moves = 0
    /\ gridSize = DEFAULT_GRID_SIZE
    /\ shuffleMoves = DEFAULT_SHUFFLE_MOVES
    /\ gameId = null
    /\ loading = TRUE
    /\ winModalVisible = FALSE
    /\ modalState = "none"
    /\ timerOn = FALSE
    /\ alerts = <<>>
    /\ createReq = <<>>
    /\ completeReq = <<>>
    /\ created = 0
    /\ last = NotAPress
    /\ wins = 0
    /\ reports = 0
    /\ call = NoCall
    /\ \E variant \in Layouts, stored \in StoredAtStart, route \in Routes :
           AppStart(variant, stored, route)

\* loadToken after SecureStore.getItemAsync has resolved (lines 55-64).
LoadTokenDone ==
    /\ loadPc = "reading"
    /\ LET token == storedToken
       IN  IF Truthy(token)
           THEN /\ authHeader' = Bearer(token)
                /\ authState' = SignedIn(token)
           ELSE UNCHANGED <<authHeader, authState>>
    /\ isAuthLoading' = FALSE
    /\ loadPc' = "done"
    /\ effectDue' = TRUE
    /\ authLast' = NoAuthEvent
    /\ UNCHANGED <<layout, storedToken, segments, splashHidden, lastRedirect, tasks, logins,
                   gameVars, call>>

\* loadToken after SecureStore.getItemAsync has rejected (lines 60-64).
LoadTokenFails ==
    /\ loadPc = "reading"
    /\ isAuthLoading' = FALSE
    /\ loadPc' = "done"
    /\ effectDue' = TRUE
    /\ authLast' = NoAuthEvent
    /\ UNCHANGED <<layout, authState, storedToken, authHeader, segments, splashHidden,
                   lastRedirect, tasks, logins, gameVars, call>>

\* The effect of InitialLayout runs.
LayoutEffect ==
    /\ effectDue
    /\ LET e == InitialLayoutEffect(layout, isAuthLoading, authState.authenticated, segments)
       IN  /\ splashHidden' = (splashHidden \/ e.hide)
           /\ IF e.redirect # "none"
              THEN /\ segments' = TopSegment(e.redirect)
                   /\ lastRedirect' = e.redirect
                   /\ effectDue' = (segments' # segments)
              ELSE /\ effectDue' = FALSE
                   /\ UNCHANGED <<segments, lastRedirect>>
    /\ authLast' = NoAuthEvent
    /\ UNCHANGED <<layout, authState, isAuthLoading, loadPc, storedToken, authHeader, tasks,
                   logins, gameVars, call>>

\* The user starts a game or a task from the home screen (src/app/auth.tsx,
\* lines 437-456), or leaves the game for the home screen.
Navigate(path) ==
    /\ ScreensShown
    /\ \/ segments = "(tabs)" /\ path \in {"/game", "/taskGame"}
       \/ segments \in {"game", "taskGame"} /\ path = "/(tabs)"
    /\ segments' = TopSegment(path)
    /\ effectDue' = TRUE
    /\ authLast' = NoAuthEvent
    /\ UNCHANGED <<layout, authState, isAuthLoading, loadPc, storedToken, authHeader,
                   splashHidden, lastRedirect, tasks, logins, gameVars, call>>

\* A screen sends a request to the API.
SendRequest ==
    /\ ScreensShown
    /\ Len(tasks) < MaxInFlight
    /\ tasks' = Append(tasks, AuthTask("request", "sent", null))
    /\ authLast' = NoAuthEvent
    /\ UNCHANGED <<layout, authState, isAuthLoading, loadPc, storedToken, authHeader, segments,
                   effectDue, splashHidden, lastRedirect, logins, gameVars, call>>

\* The sign-in form calls login (src/app/auth.tsx, line 36), which posts the
\* credentials (line 76); the button is disabled until login settles.  The
\* service answers each login with a token of its own.
LoginCall ==
    /\ ScreensShown
    /\ segments = "auth"
    /\ logins < MaxLogins
    /\ Len(tasks) < MaxInFlight
    /\ \A k \in 1..Len(tasks) : tasks[k].op = "login" => tasks[k].pc = "storing"
    /\ logins' = logins + 1
    /\ tasks' = Append(tasks, AuthTask("login", "sent", logins + 2))
    /\ authLast' = NoAuthEvent
    /\ UNCHANGED <<layout, authState, isAuthLoading, loadPc, storedToken, authHeader, segments,
                   effectDue, splashHidden, lastRedirect, gameVars, call>>

\* The profile screen calls logout (src/unnamed/part_000, line 146), which asks
\* SecureStore to delete the token (line 33).
LogoutCall ==
    /\ ScreensShown
    /\ segments = "(tabs)"
    /\ Len(tasks) < MaxInFlight
    /\ tasks' = Append(tasks, AuthTask("logout", "deleting", null))
    /\ authLast' = NoAuthEvent
    /\ UNCHANGED <<layout, authState, isAuthLoading, loadPc, storedToken, authHeader, segments,
                   effectDue, splashHidden, lastRedirect, logins, gameVars, call>>

\* A request other than login is answered with a success status.
ResponseOk(k) ==
    /\ k \in 1..Len(tasks)
    /\ tasks[k].op = "request"
    /\ tasks[k].pc = "sent"
    /\ tasks' = RemoveAt(tasks, k)
    /\ authLast' = Resolved("request")
    /\ UNCHANGED <<layout, authState, isAuthLoading, loadPc, storedToken, authHeader, segments,
                   effectDue, splashHidden, lastRedirect, logins, gameVars, call>>

\* login after the post has succeeded (lines 77-80), up to the await of
\* SecureStore.setItemAsync.
LoginResponse(k) ==
    /\ k \in 1..Len(tasks)
    /\ tasks[k].op = "login"
    /\ tasks[k].pc = "sent"
    /\ LET token == tasks[k].token
       IN  /\ authState' = SignedIn(token)
           /\ authHeader' = Bearer(token)
    /\ effectDue' = (effectDue \/ AuthDepChanged(layout, authState, authState'))
    /\ tasks' = [tasks EXCEPT ![k].pc = "storing"]
    /\ authLast' = NoAuthEvent
    /\ UNCHANGED <<layout, isAuthLoading, loadPc, storedToken, segments, splashHidden,
                   lastRedirect, logins, gameVars, call>>

\* login after SecureStore.setItemAsync has resolved (line 81).
LoginStored(k) ==
    /\ k \in 1..Len(tasks)
    /\ tasks[k].op = "login"
    /\ tasks[k].pc = "storing"
    /\ storedToken' = tasks[k].token
    /\ tasks' = RemoveAt(tasks, k)
    /\ authLast' = Resolved("login")
    /\ UNCHANGED <<layout, authState, isAuthLoading, loadPc, authHeader, segments, effectDue,
                   splashHidden, lastRedirect, logins, gameVars, call>>

\* login after SecureStore.setItemAsync has rejected (lines 82-84).
LoginStoreFails(k) ==
    /\ k \in 1..Len(tasks)
    /\ tasks[k].op = "login"
    /\ tasks[k].pc = "storing"
    /\ tasks' = RemoveAt(tasks, k)
    /\ authLast' = Rejected("login", NoError, StoreError)
    /\ UNCHANGED <<layout, authState, isAuthLoading, loadPc, storedToken, authHeader, segments,
                   effectDue, splashHidden, lastRedirect, logins, gameVars, call>>

\* The response interceptor is given an error that is not a 401 response and
\* rejects with it (lines 43-49); login rethrows it (lines 82-84).
ResponseOtherError(k) ==
    /\ k \in 1..Len(tasks)
    /\ tasks[k].pc = "sent"
    /\ \E error \in {HttpError(OtherStatus), NetworkError} :
           /\ error.status # Unauthorized
           /\ authLast' = Rejected(tasks[k].op, error, error)
    /\ tasks' = RemoveAt(tasks, k)
    /\ UNCHANGED <<layout, authState, isAuthLoading, loadPc, storedToken, authHeader, segments,
                   effectDue, splashHidden, lastRedirect, logins, gameVars, call>>

\* The response interceptor is given a 401 response and calls logout (lines
\* 44-47), which asks SecureStore to delete the token (line 33).
ResponseUnauthorized(k) ==
    /\ k \in 1..Len(tasks)
    /\ tasks[k].pc = "sent"
    /\ LET error == HttpError(Unauthorized)
       IN  /\ error.status = Unauthorized
           /\ tasks' = [tasks EXCEPT ![k].pc = "deleting", ![k].received = error]
    /\ authLast' = NoAuthEvent
    /\ UNCHANGED <<layout, authState, isAuthLoading, loadPc, storedToken, authHeader, segments,
                   effectDue, splashHidden, lastRedirect, logins, gameVars, call>>

\* logout after SecureStore.deleteItemAsync has resolved (lines 34-38).  When
\* the interceptor called it, the interceptor goes on to reject with the error it
\* was given (line 48), and login rethrows it.
DeleteDone(k) ==
    /\ k \in 1..Len(tasks)
    /\ tasks[k].pc = "deleting"
    /\ storedToken' = null
    /\ authHeader' = NoHeader
    /\ authState' = SignedOut
    /\ effectDue' = (effectDue \/ AuthDepChanged(layout, authState, authState'))
    /\ authLast' = IF tasks[k].op = "logout"
                   THEN Resolved("logout")
                   ELSE Rejected(tasks[k].op, tasks[k].received, tasks[k].received)
    /\ tasks' = RemoveAt(tasks, k)
    /\ UNCHANGED <<layout, isAuthLoading, loadPc, segments, splashHidden, lastRedirect,
                   logins, gameVars, call>>

\* logout after SecureStore.deleteItemAsync has rejected: the rest of logout
\* does not run, and an interceptor awaiting it (line 46) rejects with the error
\* of SecureStore before reaching line 48.
DeleteFails(k) ==
    /\ k \in 1..Len(tasks)
    /\ tasks[k].pc = "deleting"
    /\ authLast' = Rejected(tasks[k].op, tasks[k].received, StoreError)
    /\ tasks' = RemoveAt(tasks, k)
    /\ UNCHANGED <<layout, authState, isAuthLoading, loadPc, storedToken, authHeader, segments,
                   effectDue, splashHidden, lastRedirect, logins, gameVars, call>>

NextAuth ==
    \/ LoadTokenDone
    \/ LoadTokenFails
    \/ LayoutEffect
    \/ \E path \in {"/(tabs)", "/game", "/taskGame"} : Navigate(path)
    \/ SendRequest
    \/ LoginCall
    \/ LogoutCall
    \/ \E k \in 1..Len(tasks) : ResponseOk(k)
    \/ \E k \in 1..Len(tasks) : LoginResponse(k)
    \/ \E k \in 1..Len(tasks) : LoginStored(k)
    \/ \E k \in 1..Len(tasks) : LoginStoreFails(k)
    \/ \E k \in 1..Len(tasks) : ResponseOtherError(k)
    \/ \E k \in 1..Len(tasks) : ResponseUnauthorized(k)
    \/ \E k \in 1..Len(tasks) : DeleteDone(k)
    \/ \E k \in 1..Len(tasks) : DeleteFails(k)

SpecAuth == InitAuth /\ [][NextAuth]_vars

-----------------------------------------------------------------------------
\* Vocabulary of the claims (section 3 of the specification).

\* b has n*n cells holding each label 1..n*n-1 once and one empty cell.
WellFormed(b, n) ==
    /\ Len(b) = n * n
    /\ \A v \in 1..(n * n - 1) : Cardinality({i \in 1..Len(b) : b[i] = v}) = 1
    /\ Cardinality({i \in 1..Len(b) : b[i] = null}) = 1

\* Manhattan distance of the cells with linear indices i and j on an n x n grid,
\* with position (row = i div n, col = i mod n).
Manhattan(i, j, n) == Abs((i \div n) - (j \div n)) + Abs((i % n) - (j % n))

HasEmpty(b) == \E i \in 1..Len(b) : b[i] = null

\* The 0-based index of the empty cell of a board that has one.
EmptyAt(b) == (CHOOSE i \in 1..Len(b) : b[i] = null) - 1

\* Cell i is edge-adjacent to the empty cell of b on an n x n grid.
EdgeAdjacent(b, i, n) ==
    /\ n >= 2
    /\ HasEmpty(b)
    /\ Manhattan(i, EmptyAt(b), n) = 1

\* A board is on screen.
HasBoard == mounted /\ pieces # <<>>

\* C1: whenever a board exists (gridSize N >= 2), after any sequence of tile
\* presses and restarts, it has N*N cells holding each label 1..N*N-1 exactly once
\* and exactly one empty cell.
C1_BoardIsPermutation ==
    (HasBoard /\ gridSize >= 2) => WellFormed(pieces, gridSize)

\* C1 witness: a 3 x 3 board of a restarted game after two accepted presses.
C1_Witness ==
    /\ HasBoard /\ gridSize = 3 /\ created = 2 /\ moves >= 2
    /\ last.op = "press" /\ pieces # last.pieces
    /\ WellFormed(pieces, gridSize)

\* C2: for gridSize >= 2 and shuffleMoves >= 0 and every outcome of the random
\* choices, generatePuzzle returns gridSize*gridSize cells whose values are exactly
\* 1..gridSize*gridSize-1 and one empty cell.
C2_GenerateIsPermutation ==
    (/\ call.fn = "generatePuzzle"
     /\ call.pc \in {"board", "done"}
     /\ call.size >= 2
     /\ call.shuffles >= 0)
        => WellFormed(call.board, call.size)

\* C2 witness: a 3 x 3 board returned after at least two shuffle moves, with the
\* empty cell away from its solved place.
C2_Witness ==
    /\ call.fn = "generatePuzzle" /\ call.pc = "board"
    /\ call.size = 3 /\ call.shuffles >= 2
    /\ call.board[9] # null
    /\ WellFormed(call.board, 3)

\* The boards reachable from the boards of B by at most d presses that
\* handlePiecePress accepts.
RECURSIVE PressReach(_, _, _)
PressReach(B, n, d) ==
    IF d <= 0 THEN B
    ELSE PressReach(
            B \cup {PressResult(b, n, 0, i).pieces : <<b, i>> \in
                        {<<b, i>> \in B \X (0..(n * n - 1)) :
                            PressResult(b, n, 0, i).moved}},
            n, d - 1)

\* C3: every board generatePuzzle can produce (gridSize >= 2) is brought to the
\* solved configuration by a finite sequence of presses that handlePiecePress
\* accepts: at most shuffleMoves of them.
C3_GeneratedIsSolvable ==
    (/\ call.fn = "generatePuzzle"
     /\ call.pc = "board"
     /\ call.size >= 2)
        => Solved(call.size) \in PressReach({call.board}, call.size, call.shuffles)

\* C3 witness: a generated 3 x 3 board that is not solved and that presses solve.
C3_Witness ==
    /\ call.fn = "generatePuzzle" /\ call.pc = "board"
    /\ call.size = 3 /\ call.shuffles >= 2
    /\ call.board # Solved(3)
    /\ Solved(3) \in PressReach({call.board}, 3, call.shuffles)

\* C4: a press on a cell that is not edge-adjacent to the empty cell (the empty
\* cell itself included) leaves the board and the move counter unchanged, runs no
\* win check and sends no completion report. Stated of every cell of every board
\* on screen, and of the press that was last delivered.
C4_NonAdjacentPressIgnored ==
    /\ HasBoard =>
        \A i \in 0..(Len(pieces) - 1) :
            ~EdgeAdjacent(pieces, i, gridSize) =>
                LET r == PressResult(pieces, gridSize, moves, i)
                IN  /\ r.pieces = pieces
                    /\ r.moves = moves
                    /\ ~r.moved /\ ~r.checked /\ ~r.won
    /\ (last.op = "press" /\ ~EdgeAdjacent(last.pieces, last.index, gridSize)) =>
            /\ pieces = last.pieces
            /\ moves = last.moves
            /\ ~last.checked
            /\ completeReq = last.completeReq
            /\ alerts = last.alerts

\* C4 witness: a tile of a 3 x 3 board that is not next to the empty cell was
\* pressed and nothing changed.
C4_Witness ==
    /\ HasBoard /\ gridSize = 3
    /\ last.op = "press"
    /\ ~EdgeAdjacent(last.pieces, last.index, gridSize)
    /\ pieces = last.pieces /\ moves = last.moves

\* C5: a press on a cell edge-adjacent to the empty cell exchanges the contents of
\* exactly those two cells (the pressed cell becomes empty, the former empty cell
\* receives the pressed label); every other cell is unchanged.
C5_AdjacentPressSwaps ==
    (last.op = "press" /\ EdgeAdjacent(last.pieces, last.index, gridSize)) =>
        LET e == EmptyAt(last.pieces)
            p == last.index
        IN  /\ Len(pieces) = Len(last.pieces)
            /\ pieces[p + 1] = null
            /\ pieces[e + 1] = last.pieces[p + 1]
            /\ \A i \in 1..Len(pieces) : (i # p + 1 /\ i # e + 1) => pieces[i] = last.pieces[i]

\* C5 witness: the scenario of the specification, [1,2,3,4,5,6,7,empty,8] with
\* index 8 pressed.
C5_Witness ==
    /\ last.op = "press" /\ last.index = 8
    /\ last.pieces = <<1, 2, 3, 4, 5, 6, 7, null, 8>>
    /\ pieces = <<1, 2, 3, 4, 5, 6, 7, 8, null>>

\* C6: checkWinCondition returns true exactly when cell i holds label i+1 for
\* every i in [0, N*N-2] and the last cell is empty; it returns false on every
\* board obtained from a solved board by exchanging two distinct cells.
C6_WinIffSolved ==
    call.pc = "done" =>
        /\ call.ret = (/\ \A i \in 1..(Len(call.board) - 1) : call.board[i] = i
                       /\ call.board[Len(call.board)] = null)
        /\ \A n \in 2..MaxSize :
             (call.board \in {Exchange(Solved(n), i, j) :
                                 <<i, j>> \in {<<i, j>> \in (1..(n * n)) \X (1..(n * n)) : i # j}})
                => call.ret = FALSE

\* C6 witness: a one-swap perturbation of the solved 3 x 3 board was checked.
C6_Witness ==
    /\ call.pc = "done" /\ call.fn = "checkWinCondition"
    /\ call.board = Exchange(Solved(3), 8, 9)
    /\ call.ret = FALSE

\* C7: for gridSize >= 2, generatePuzzle(gridSize, 0) returns the solved board,
\* on which checkWinCondition returns true.
C7_ZeroShufflesIsSolved ==
    (/\ call.fn = "generatePuzzle"
     /\ call.size >= 2
     /\ call.shuffles = 0)
        => /\ call.pc \in {"board", "done"} => call.board = Solved(call.size)
           /\ call.pc = "done" => call.ret = TRUE

\* C7 witness: generate(3, 0) returned and was checked.
C7_Witness ==
    /\ call.fn = "generatePuzzle" /\ call.pc = "done"
    /\ call.size = 3 /\ call.shuffles = 0
    /\ call.board = <<1, 2, 3, 4, 5, 6, 7, 8, null>>
    /\ call.ret = TRUE

\* C8: generating a puzzle with gridSize below 2 fails with an
\* InvalidConfiguration error: generatePuzzle returns no board.
C8_SmallGridRejected ==
    (call.fn = "generatePuzzle" /\ call.size < 2) => call.pc = "loop"

\* C9: handlePiecePress accepts a press only at Manhattan distance exactly 1 from
\* the empty cell; cells with consecutive linear indices on different rows, and
\* diagonal cells, are never treated as adjacent.
C9_AcceptsOnlyManhattanOne ==
    (HasBoard /\ gridSize >= 2 /\ HasEmpty(pieces)) =>
        \A i \in 0..(Len(pieces) - 1) :
            LET e == EmptyAt(pieces)
                n == gridSize
                accepted == PressResult(pieces, n, moves, i).moved
            IN  /\ accepted => Manhattan(i, e, n) = 1
                /\ (Abs(i - e) = 1 /\ (i \div n) # (e \div n)) => ~accepted
                /\ (Abs((i \div n) - (e \div n)) = 1 /\ Abs((i % n) - (e % n)) = 1)
                       => ~accepted

\* C9 witness: on a 3 x 3 board the tile whose index follows or precedes the
\* empty cell's across a row end was pressed, and the press was not accepted.
C9_Witness ==
    /\ HasBoard /\ gridSize = 3 /\ last.op = "press"
    /\ Abs(last.index - EmptyAt(last.pieces)) = 1
    /\ (last.index \div 3) # (EmptyAt(last.pieces) \div 3)
    /\ pieces = last.pieces /\ moves = last.moves

\* C10: once a tile press has brought the board to the solved configuration, no
\* later tile press of the same session changes the board or the move counter.
C10_SolvedIsTerminal ==
    [][(/\ HasBoard
        /\ moves > 0
        /\ checkWinCondition(pieces)
        /\ last'.op = "press")
            => (pieces' = pieces /\ moves' = moves)]_vars

\* The last handler was a tile press that handlePiecePress accepted.
PressAccepted == last.op = "press" /\ pieces # last.pieces

\* C11: after every accepted move the win condition is evaluated on the resulting
\* board, and whenever that board is solved and a session identifier is held, a
\* completion report for the game is sent.
C11_WinCheckedAndReported ==
    PressAccepted =>
        /\ last.checked
        /\ (checkWinCondition(pieces) /\ gameId # null)
               => completeReq = Append(last.completeReq, gameId)

\* C11 witness: an accepted press solved a 3 x 3 board and the report of the game
\* is in flight.
C11_Witness ==
    /\ PressAccepted /\ last.checked /\ gridSize = 3
    /\ pieces = Solved(3) /\ gameId # null
    /\ completeReq = Append(last.completeReq, gameId)

\* C12: the session-creation request is sent before any board is generated and
\* carries the grid size and shuffle-move count; the board is generated with
\* exactly the grid size and shuffle-move count of that request, and the session
\* identifier stored is the one the response returned.
C12_CreateThenGenerate ==
    /\ \A k \in 1..Len(createReq) :
          /\ createReq[k].grid = OrDefault(ParseInt(params.gridSize), 3)
          /\ createReq[k].moves = OrDefault(ParseInt(params.shuffleMoves), 50)
    /\ created = 0 => pieces = <<>>
    /\ (mounted /\ last.op = "created") =>
          /\ gridSize = last.req.grid
          /\ shuffleMoves = last.req.moves
          /\ pieces \in generatePuzzle(last.req.grid, last.req.moves)
          /\ gameId = last.id
          /\ last.req.grid = OrDefault(ParseInt(params.gridSize), 3)
          /\ last.req.moves = OrDefault(ParseInt(params.shuffleMoves), 50)

\* C12 witness: a 3 x 3 board generated with 2 shuffle moves on the response of a
\* request that carried grid 3 and moves 2, with the returned identifier stored.
C12_Witness ==
    /\ mounted /\ last.op = "created"
    /\ last.req = [grid |-> 3, moves |-> 2]
    /\ Len(pieces) = 9 /\ pieces # Solved(3)
    /\ gameId = last.id /\ gameId # null

\* C13: every completion report carries, when it is sent, the session identifier
\* returned by the most recent successful session creation (the session the board
\* on screen was generated under), never that of an earlier, restarted session.
C13_ReportCarriesCurrentSession ==
    (last.op = "press" /\ completeReq # last.completeReq) =>
        /\ completeReq = Append(last.completeReq, created)
        /\ gameId = created

\* C13 witness: the report of the second session is sent while the report of the
\* first, restarted session is still in flight.
C13_Witness ==
    /\ last.op = "press" /\ created = 2
    /\ last.completeReq = <<1>>
    /\ completeReq = <<1, 2>>

\* C14: a completion report is never sent without a session identifier: when
\* gameId is null at a win, handleGameWin sends no request and the win modal is
\* not shown.
C14_NoReportWithoutGameId ==
    /\ \A k \in 1..Len(completeReq) : completeReq[k] # null
    /\ (PressAccepted /\ checkWinCondition(pieces) /\ gameId = null) =>
          /\ completeReq = last.completeReq
          /\ alerts = Append(last.alerts, "noGameId")
          /\ ~winModalVisible

\* C14 witness: a board was solved while no session identifier was held.
C14_Witness ==
    /\ PressAccepted /\ checkWinCondition(pieces) /\ gameId = null
    /\ completeReq = last.completeReq
    /\ alerts = <<"noGameId">>

\* C15: a failed network call is shown to the user and not retried: the step of a
\* failed session creation sends no creation request, the step of a failed
\* completion report sends no completion request, each shows an alert, and
\* requests are sent only by a user action (confirming a restart, a tile press).
C15_NoAutomaticRetry ==
    [][/\ last'.op = "createFailed" =>
            /\ createReq' = Tail(createReq)
            /\ completeReq' = completeReq
            /\ alerts' = Append(alerts, "createFailed")
       /\ last'.op = "completeFailed" =>
            /\ Len(completeReq') = Len(completeReq) - 1
            /\ createReq' = createReq
            /\ alerts' = Append(alerts, "completeFailed")
       /\ Len(createReq') > Len(createReq) => (modalState = "restart" /\ modalState' = "none")
       /\ Len(completeReq') > Len(completeReq) => (last'.op = "press" /\ pieces' # pieces)
      ]_vars

\* C15 witness: a completion report and then a session creation have failed; both
\* alerts are on screen and no request is in flight.
C15_Witness ==
    /\ last.op = "createFailed"
    /\ alerts = <<"completeFailed", "createFailed">>
    /\ createReq = <<>> /\ completeReq = <<>>

\* C16 as claimed: neither board generation nor move application waits for a
\* response: a board is there while the first session-creation request is still
\* in flight, and a move made while a report is in flight is applied.
C16_NothingWaits ==
    /\ (mounted /\ created = 0 /\ createReq # <<>>) => pieces # <<>>
    /\ (last.op = "press" /\ last.completeReq # <<>>
            /\ EdgeAdjacent(last.pieces, last.index, gridSize))
          => (pieces # last.pieces /\ moves = last.moves + 1)

\* C16 amended: move application does not wait for a response (a move made while
\* a report is in flight is applied, and the move that wins is applied in the
\* step that sends its report); board generation waits for the response of the
\* session-creation request: no board exists before the first successful
\* response, so a creation that fails leaves the screen without a board.
C16_OnlyGenerationWaits ==
    /\ created = 0 => pieces = <<>>
    /\ (last.op = "press" /\ last.completeReq # <<>>
            /\ EdgeAdjacent(last.pieces, last.index, gridSize))
          => (pieces # last.pieces /\ moves = last.moves + 1)
    /\ (last.op = "press" /\ completeReq # last.completeReq)
          => (pieces # last.pieces /\ moves = last.moves + 1 /\ completeReq # <<>>)

\* C16 witness: a move was applied while a completion report was in flight.
C16_Witness ==
    /\ last.op = "press" /\ last.completeReq # <<>>
    /\ completeReq # <<>>
    /\ pieces # last.pieces /\ moves = last.moves + 1

\* The in-bounds cells (0-based) edge-adjacent to cell e of an n x n grid.
AdjacentCells(e, n) == {j \in 0..(n * n - 1) : Manhattan(j, e, n) = 1}

\* The elements of a sequence.
Range(q) == {q[k] : k \in 1..Len(q)}

\* C17: for gridSize >= 2, at every shuffle step of generatePuzzle the candidate
\* set is exactly the set of in-bounds cells edge-adjacent to the current empty
\* cell (between 1 and 4 cells), the swap is made with one of those candidates,
\* and the tracked emptyIndex is the index of the cell that holds the empty marker.
C17_ShuffleStepIsLegalMove ==
    (call.fn = "generatePuzzle" /\ call.pc = "loop" /\ call.size >= 2) =>
        LET e == call.st.emptyIndex
            n == call.size
            cand == Neighbors(e, n)
        IN  /\ e \in 0..(Len(call.st.pieces) - 1)
            /\ call.st.pieces[e + 1] = null
            /\ \A k \in 1..Len(call.st.pieces) : call.st.pieces[k] = null => k = e + 1
            /\ Range(cand) = AdjacentCells(e, n)
            /\ Cardinality(Range(cand)) \in 1..4
            /\ \A st \in ShuffleStep(call.st, n) :
                  /\ st.emptyIndex \in AdjacentCells(e, n)
                  /\ st.pieces = Exchange(call.st.pieces, e + 1, st.emptyIndex + 1)

\* C17 witness: a shuffle step was made on a 3 x 3 grid, the empty cell is on the
\* right edge with three candidates, and another step follows.
C17_Witness ==
    /\ call.fn = "generatePuzzle" /\ call.pc = "loop" /\ call.size = 3
    /\ call.i >= 1 /\ call.i < call.shuffles
    /\ call.st.emptyIndex = 5 /\ call.st.pieces[6] = null
    /\ Range(Neighbors(5, 3)) = {2, 8, 4}

\* C18: whenever a response with status 401 is received, logout runs (stored
\* token deleted, Authorization header removed, authState set to token null /
\* authenticated false) before the error reaches the requester, and the
\* requester receives the original error as a rejection.
C18_UnauthorizedLogsOutThenRejects ==
    (authLast.op = "rejected" /\ authLast.received = HttpError(Unauthorized))
        => /\ authLast.error = authLast.received
           /\ storedToken = null
           /\ authHeader = NoHeader
           /\ authState = SignedOut

\* C19: while isAuthLoading is true the root layout issues no redirect, leaves
\* the splash screen alone and renders no screen; a redirect has been issued
\* only once loadToken has finished, whether it read the token or failed.
C19_NothingWhileLoading ==
    /\ isAuthLoading => /\ lastRedirect = "none"
                        /\ ~splashHidden
                        /\ LayoutRenders(isAuthLoading) = "nothing"
    /\ lastRedirect # "none" => loadPc = "done"

\* The effect of part_002 has run while the token was loading, for a user
\* without a token on the home screen.
C19_Witness ==
    /\ isAuthLoading
    /\ ~effectDue
    /\ layout = "part_002"
    /\ storedToken = null
    /\ segments = "(tabs)"

\* C20: in every variant of the root layout, once the auth state has loaded and
\* the effect of the layout has run, a user who is not signed in is on the auth
\* screen, not on the tabs, the game or the task game.
C20_SignedOutSentToAuth ==
    (~isAuthLoading /\ ~effectDue /\ ~authState.authenticated) => segments = "auth"

\* C21: once the initializeGame of a restart has completed and the new board is
\* shown, the win modal is visible only if that board has itself been solved,
\* whatever the order of the restart and the answer to a report of the game
\* before it.
C21_WinModalHiddenAfterRestart ==
    (mounted /\ ~loading /\ winModalVisible) => wins >= 1

\* C22: in every variant of the root layout, once the auth state has loaded, the
\* effect of the layout does not move a signed-in user away from the game or the
\* task game screen.
C22_SignedInStaysOnGame ==
    [][(/\ LayoutEffect
        /\ ~isAuthLoading
        /\ authState.authenticated
        /\ segments \in {"game", "taskGame"}) => segments' = segments]_vars

\* C23: after the game screen has been unmounted no interval of startTimer is
\* active, also when the answer to POST /game/create arrives after the unmount.
C23_NoTimerAfterUnmount ==
    ~mounted => ~timerOn

\* C24: for each session identifier at most one POST /game/complete is ever
\* sent, whatever tiles are pressed while a report is pending or after it failed.
C24_OneReportPerSession ==
    reports <= 1

\* C25: for gridSize >= 2 and shuffleMoves >= 1 the board generatePuzzle returns
\* is never the solved configuration.
C25_GeneratedIsNotSolved ==
    (/\ call.fn = "generatePuzzle"
     /\ call.pc = "done"
     /\ call.size >= 2
     /\ call.shuffles >= 1) => call.ret = FALSE

\* No login, logout or 401-triggered logout is in progress and loadToken has
\* finished.
AuthQuiescent ==
    /\ loadPc = "done"
    /\ \A k \in 1..Len(tasks) : tasks[k].op = "request" /\ tasks[k].pc = "sent"

\* C26: whenever no login, user logout or 401-triggered logout is in progress,
\* secure storage, the Authorization header and authState hold the same token
\* when authState.authenticated is true, and none of them holds a token when it
\* is false.
C26_TokenHoldersAgree ==
    AuthQuiescent =>
        IF authState.authenticated
        THEN /\ Truthy(authState.token)
             /\ storedToken = authState.token
             /\ authHeader = Bearer(authState.token)
        ELSE /\ authState.token = null
             /\ storedToken = null
             /\ authHeader = NoHeader

====
